---- MODULE Spec2Model ----
(***************************************************************************)
(* Todo service of workshop-demo: the Express route handlers for           *)
(* /api/todos, the PostgreSQL table `todos` and the Spaces (S3) bucket.    *)
(*                                                                         *)
(* The repository holds four variants of the server: src/server.js and     *)
(* src/unnamed/part_000, part_001, part_002.  `variant` says which one is  *)
(* running; every handler is modelled once, with the places where the      *)
(* variants differ factored into operators that take the variant.          *)
(*                                                                         *)
(* A request is an async function: it runs synchronously up to an await,   *)
(* and resumes when the awaited call (s3.upload, s3.deleteObject,          *)
(* pool.query) settles.  One action models one such run-to-await segment,  *)
(* so requests interleave exactly at their awaits.                         *)
(*                                                                         *)
(* Strings that the code cuts at '/' are modelled as the sequence of their *)
(* '/'-separated segments; a segment `${Date.now()}-${originalname}` is    *)
(* the record [ts, name].                                                  *)
(***************************************************************************)
EXTENDS Integers, Sequences, FiniteSets, TLC

\* ------------------------------------------------------------------ bounds
MaxReq == 2        \* requests in flight at once
MaxTime == 1       \* clock ticks (Date.now() / CURRENT_TIMESTAMP)
MaxServed == 2     \* requests the server accepts in one run

\* ------------------------------------------------------------- the values
Variants == {"server", "part_000", "part_001", "part_002"}

NULL == "NULL"                       \* JS undefined/null, SQL NULL
NoTs == 0 - 1
Lit(s) == [ts |-> NoTs, name |-> s]  \* a literal path segment
Seg(t, n) == [ts |-> t, name |-> n]  \* `${Date.now()}-${originalname}`
NullSeg == Lit(NULL)
NullUrl == << >>

\* The files a client attaches: name, extension, MIME type, size in MB.
NoFile == [name |-> NULL, ext |-> NULL, mime |-> NULL, mb |-> 0]
PngFile == [name |-> "a.png", ext |-> ".png", mime |-> "image/png", mb |-> 1]
ExeFile == [name |-> "x.exe", ext |-> ".exe", mime |-> "application/octet-stream", mb |-> 1]
BigFile == [name |-> "big.png", ext |-> ".png", mime |-> "image/png", mb |-> 12]
Files == {PngFile, ExeFile, BigFile}

Titles == {NULL, "", "t1"}           \* missing, empty, valid
Descriptions == {"d1"}               \* of a create
NewDescriptions == {"d2"}            \* of an update
Completeds == {"true"}

\* ------------------------------------------------- multer (upload.single)
\* The whitelist regex of each variant, as the set of its alternatives.
AllowedTypes(v) ==
    CASE v = "part_000" -> {"jpeg", "jpg", "png", "gif", "pdf", "txt", "doc", "docx"}
      [] v = "part_002" -> {"jpeg", "jpg", "png", "gif", "pdf", "doc", "docx"}
      [] OTHER -> {"jpeg", "jpg", "png", "gif", "pdf", "txt"}

\* The alternatives that occur as a substring of s (regex.test is unanchored).
Occurring(s) ==
    CASE s = ".png" -> {"png"}
      [] s = "image/png" -> {"png"}
      [] OTHER -> {}

RegexTest(v, s) == (AllowedTypes(v) \cap Occurring(s)) # {}

\* limits.fileSize, in MB
FileSizeLimit(v) == IF v = "part_002" THEN 10 ELSE 5

\* What upload.single('file') does with the request before the handler:
\* 0 (next(): the handler runs), or the status the error middleware answers.
\* fileFilter runs on the part's header, the size limit while streaming.
\* fileFilter's plain Error is no MulterError: the middleware answers 500.
Multer(v, file) ==
    IF file = NoFile THEN 0
    ELSE IF ~(RegexTest(v, file.mime) /\ RegexTest(v, file.ext)) THEN 500
    ELSE IF file.mb > FileSizeLimit(v) THEN 400
    ELSE 0

\* The creates clients send: every title with no file and with an accepted
\* file; a file multer refuses, whose request never reaches the handler,
\* with one title.
CreateInputs ==
    {<<t, f>> : t \in Titles, f \in {NoFile, PngFile}}
        \cup {<<"t1", f>> : f \in {ExeFile, BigFile}}

\* ------------------------------------------------------------ environment
\* The bucket each environment variable names.  The deployment the README
\* documents sets SPACES_BUCKET; nothing sets DO_SPACES_BUCKET.
SPACES_BUCKET == "bucket"
DO_SPACES_BUCKET == NULL

UploadBucket(v) == SPACES_BUCKET
DeleteBucket(v) == IF v = "server" THEN SPACES_BUCKET ELSE DO_SPACES_BUCKET

\* ------------------------------------------------------------------ state
VARIABLES
    variant,    \* which server file runs
    dbUrl,      \* DATABASE_URL is set
    spacesEnv,  \* SPACES_ENDPOINT, SPACES_KEY and SPACES_SECRET are set (only
                \* part_000 looks; elsewhere unset credentials are failing calls)
    todos,      \* the table: the set of its rows (id is the primary key)
    nextId,     \* the SERIAL sequence behind todos.id
    assigned,   \* history: every id the sequence has handed out
    blobs,      \* the objects in the object store: [bucket, key]
    now,        \* the clock
    served,     \* how many requests have arrived
    req         \* the requests: slot -> locals of the handler

vars == <<variant, dbUrl, spacesEnv, todos, nextId, assigned, blobs, now, served, req>>

Reqs == 1..MaxReq

\* part_000: dbConfigured / spacesConfigured; pool and s3 stay null otherwise.
dbConfigured == dbUrl
spacesConfigured == spacesEnv

Idle ==
    [kind |-> "idle", pc |-> "idle", handled |-> FALSE,
     title |-> NULL, description |-> NULL, completed |-> NULL, file |-> NoFile,
     id |-> 0, bucket |-> NULL, key |-> << >>, fileUrl |-> NullUrl, fileName |-> NullSeg,
     upload |-> "none", blobDel |-> "none", found |-> "n/a", dbErr |-> FALSE,
     existed |-> FALSE, svcDb |-> NULL, svcSpaces |-> NULL,
     inserted |-> 0, status |-> 0, body |-> << >>]

\* The table outlives the process (CREATE TABLE IF NOT EXISTS): it may
\* already hold a row, with its attachment in the bucket, written by an
\* earlier run of the service no later than the clock's first value, 0.
OldKey == <<Lit("uploads"), Seg(0, "a.png")>>
OldRow ==
    [id |-> 1, title |-> "t1", description |-> "d1", completed |-> "false",
     file_url |-> <<Lit("https:"), Lit(""), Lit(SPACES_BUCKET)>> \o OldKey,
     file_name |-> Lit("a.png"), created_at |-> 0, updated_at |-> 0]

Init ==
    /\ variant \in Variants
    /\ dbUrl \in BOOLEAN
    /\ spacesEnv \in IF variant = "part_000" THEN BOOLEAN ELSE {TRUE}
    /\ \E old \in {o \in BOOLEAN : o => dbUrl} :
         /\ todos = IF old THEN {OldRow} ELSE {}
         /\ nextId = IF old THEN 2 ELSE 1
         /\ assigned = IF old THEN {1} ELSE {}
         /\ blobs = IF old THEN {[bucket |-> SPACES_BUCKET, key |-> OldKey]} ELSE {}
    /\ now = 0
    /\ served = 0
    /\ req = [r \in Reqs |-> Idle]

Free(r) == req[r].pc \in {"idle", "done"}

\* A request arrives and takes slot r, the first free one (a slot is only a
\* name for the request).  A free slot shows its last response until the
\* next request arrives.
Arrive(r) ==
    /\ Free(r)
    /\ \A q \in Reqs : q < r => ~Free(q)
    /\ served < MaxServed
    /\ served' = served + 1

\* The slots as request r arrives with locals rec.
Begin(r, rec) == [q \in Reqs |-> IF q = r THEN rec ELSE IF Free(q) THEN Idle ELSE req[q]]

Respond(rec, code, rows) == [rec EXCEPT !.pc = "done", !.status = code, !.body = rows]

\* JS truthiness of a string-or-undefined value
Truthy(s) == s # NULL /\ s # ""

\* ------------------------------------------------------------ POST /api/todos
\* Which variants have the guard / the check / the inner try-catch.
ChecksDb(v) == v = "part_000"
ValidatesTitle(v) == v \in {"part_000", "part_002"}
UploadsFile(v) == v = "part_000" => spacesConfigured
AbsorbsUploadError(v) == v = "part_000"

\* Key: `uploads/${Date.now()}-${req.file.originalname}`
UploadKey(t, file) == <<Lit("uploads"), Seg(t, file.name)>>

\* uploadResult.Location: the object's URL, cut at '/'
Location(bucket, key) == <<Lit("https:"), Lit(""), Lit(bucket)>> \o key

\* s3.upload(...).promise() can resolve: the client has credentials, and the
\* Body is a buffer (part_002's multer writes to disk: req.file.buffer is
\* undefined and the SDK refuses the parameters).
UploadCanSucceed(v) == spacesEnv /\ v # "part_002"

\* pool.query can resolve: a database is reachable.
QueryCanSucceed == dbUrl

\* pool is null (part_000 without DATABASE_URL): pool.query throws at once.
PoolIsNull(v) == v = "part_000" /\ ~dbConfigured

\* As AfterUpload, with fileName assigned before the upload is awaited.
AfterUploadNameFirst(v, rec, ok) ==
    [fileUrl |-> IF ok THEN Location(rec.bucket, rec.key) ELSE NullUrl,
     fileName |-> Lit(rec.file.name),
     thrown |-> ~ok /\ ~AbsorbsUploadError(v)]

\* The handler from the upload's settling to the INSERT: the values of
\* fileUrl and fileName, and whether an exception reached the outer catch.
\* server.js assigns to its block-scoped `const fileName`: a TypeError.
AfterUpload(v, rec, ok) ==
    IF ok
    THEN CASE v = "server" ->
                [fileUrl |-> Location(rec.bucket, rec.key), fileName |-> NullSeg, thrown |-> TRUE]
           [] v = "part_001" ->
                [fileUrl |-> Location(rec.bucket, rec.key), fileName |-> rec.key[2], thrown |-> FALSE]
           [] OTHER ->
                [fileUrl |-> Location(rec.bucket, rec.key), fileName |-> Lit(rec.file.name), thrown |-> FALSE]
    ELSE [fileUrl |-> NullUrl, fileName |-> NullSeg, thrown |-> ~AbsorbsUploadError(v)]

\* The largest id of the table, plus one.
NextValMaxPlusOne ==
    IF todos = {} THEN 1
    ELSE (CHOOSE i \in {t.id : t \in todos} : \A t \in todos : t.id <= i) + 1

\* nextval of the SERIAL column
NextVal == nextId

\* INSERT INTO todos (title, description, file_url, file_name) ... RETURNING *
NewRow(rec, id, t) ==
    [id |-> id, title |-> rec.title, description |-> rec.description,
     completed |-> "false", file_url |-> rec.fileUrl, file_name |-> rec.fileName,
     created_at |-> t, updated_at |-> t]

\* The request arrives; multer parses it; the handler runs to its first await.
PostTodos(r, title, description, file) ==
    /\ Arrive(r)
    /\ LET m == Multer(variant, file)
           rec == [Idle EXCEPT !.kind = "create", !.title = title,
                               !.description = description, !.file = file]
           run == [rec EXCEPT !.handled = TRUE]
       IN  req' = Begin(r,
             IF m # 0 THEN Respond(rec, m, << >>)
             ELSE IF ChecksDb(variant) /\ ~dbConfigured THEN Respond(run, 503, << >>)
             ELSE IF ValidatesTitle(variant) /\ ~Truthy(title) THEN Respond(run, 400, << >>)
             ELSE IF file # NoFile /\ UploadsFile(variant)
                  THEN [run EXCEPT !.pc = "upload", !.bucket = UploadBucket(variant),
                                   !.key = UploadKey(now, file)]
             ELSE [run EXCEPT !.pc = "insert"])
    /\ UNCHANGED <<variant, dbUrl, spacesEnv, todos, nextId, assigned, blobs, now>>

\* s3.upload settles.
UploadDone(r, ok) ==
    /\ req[r].pc = "upload"
    /\ ok => UploadCanSucceed(variant)
    /\ LET rec == req[r]
           a == AfterUpload(variant, rec, ok)
           got == [rec EXCEPT !.upload = IF ok THEN "ok" ELSE "failed",
                              !.fileUrl = a.fileUrl, !.fileName = a.fileName]
       IN  /\ blobs' = IF ok THEN blobs \cup {[bucket |-> rec.bucket, key |-> rec.key]} ELSE blobs
           /\ req' = [req EXCEPT ![r] =
                 IF a.thrown THEN Respond(got, 500, << >>)
                 ELSE [got EXCEPT !.pc = "insert"]]
    /\ UNCHANGED <<variant, dbUrl, spacesEnv, todos, nextId, assigned, now, served>>

\* The INSERT settles.  title is NOT NULL: a missing title is refused.
InsertDone(r, ok) ==
    /\ req[r].pc = "insert"
    /\ ok => QueryCanSucceed
    /\ LET rec == req[r]
           row == NewRow(rec, NextVal, now)
       IN  IF ok /\ rec.title # NULL
           THEN /\ todos' = todos \cup {row}
                /\ nextId' = nextId + 1
                /\ assigned' = assigned \cup {row.id}
                /\ req' = [req EXCEPT ![r] = Respond([rec EXCEPT !.inserted = row.id], 201, <<row>>)]
           ELSE /\ req' = [req EXCEPT ![r] = Respond([rec EXCEPT !.dbErr = TRUE], 500, << >>)]
                /\ UNCHANGED <<todos, nextId, assigned>>
    /\ UNCHANGED <<variant, dbUrl, spacesEnv, blobs, now, served>>

\* ------------------------------------------------- PUT /api/todos/:id
\* part_001 registers neither the PUT nor the DELETE route.
HasIdRoutes(v) == v # "part_001"

\* The ids clients ask for: every id handed out so far, and the next one,
\* which no row has yet.
Ids == 1..nextId

RowsOf(id) == {t \in todos : t.id = id}

\* As UpdateRows, inserting the row when none matches (an upsert).
UpsertRows(table, id, title, description, completed, t) ==
    IF \E row \in table : row.id = id
    THEN {IF row.id = id
          THEN [row EXCEPT !.title = title, !.description = description,
                           !.completed = completed, !.updated_at = t]
          ELSE row : row \in table}
    ELSE table \cup {[id |-> id, title |-> title, description |-> description,
                       completed |-> completed, file_url |-> NullUrl,
                       file_name |-> NullSeg, created_at |-> t, updated_at |-> t]}

\* As UpdateRows, writing the matching row anew: its attachment columns
\* and created_at take their defaults.
ReplaceRows(table, id, title, description, completed, t) ==
    {IF row.id = id
     THEN [row EXCEPT !.title = title, !.description = description,
                      !.completed = completed, !.updated_at = t,
                      !.file_url = NullUrl, !.file_name = NullSeg, !.created_at = t]
     ELSE row : row \in table}

\* UPDATE todos SET title, description, completed, updated_at WHERE id = $4
UpdateRows(table, id, title, description, completed, t) ==
    {IF row.id = id
     THEN [row EXCEPT !.title = title, !.description = description,
                      !.completed = completed, !.updated_at = t]
     ELSE row : row \in table}

PutTodo(r, id, title, description, completed) ==
    /\ Arrive(r)
    /\ HasIdRoutes(variant)
    /\ LET rec == [Idle EXCEPT !.kind = "put", !.handled = TRUE, !.id = id, !.title = title,
                               !.description = description, !.completed = completed,
                               !.existed = (RowsOf(id) # {})]
       IN  req' = Begin(r,
             IF PoolIsNull(variant) THEN Respond([rec EXCEPT !.dbErr = TRUE], 500, << >>)
             ELSE [rec EXCEPT !.pc = "update"])
    /\ UNCHANGED <<variant, dbUrl, spacesEnv, todos, nextId, assigned, blobs, now>>

\* The UPDATE settles: one statement, so the match and the write are atomic.
\* A NULL title violates NOT NULL only when a row matches.
UpdateDone(r, ok) ==
    /\ req[r].pc = "update"
    /\ ok => QueryCanSucceed
    /\ LET rec == req[r]
           hit == RowsOf(rec.id) # {}
           table == UpdateRows(todos, rec.id, rec.title, rec.description, rec.completed, now)
       IN  IF ok /\ ~(hit /\ rec.title = NULL)
           THEN /\ todos' = table
                /\ req' = [req EXCEPT ![r] =
                      IF hit
                      THEN Respond([rec EXCEPT !.found = "yes"], 200,
                                   <<CHOOSE t \in table : t.id = rec.id>>)
                      ELSE Respond([rec EXCEPT !.found = "no"], 404, << >>)]
           ELSE /\ req' = [req EXCEPT ![r] = Respond([rec EXCEPT !.dbErr = TRUE], 500, << >>)]
                /\ UNCHANGED todos
    /\ UNCHANGED <<variant, dbUrl, spacesEnv, nextId, assigned, blobs, now, served>>

\* ---------------------------------------------- DELETE /api/todos/:id
SwallowsDeleteError(v) == v \in {"part_000", "part_002"}

\* The key rebuilt from file_url.
\* server.js: `uploads/${url.split('/').pop()}`; the others:
\* url.split('/').slice(-2).join('/')
DeleteKey(v, url) ==
    IF v = "server"
    THEN <<Lit("uploads"), url[Len(url)]>>
    ELSE SubSeq(url, Len(url) - 1, Len(url))

\* s3.deleteObject can resolve: credentials, and a Bucket parameter.
DeleteCanSucceed(rec) == spacesEnv /\ rec.bucket # NULL

DeleteTodo(r, id) ==
    /\ Arrive(r)
    /\ HasIdRoutes(variant)
    /\ LET rec == [Idle EXCEPT !.kind = "delete", !.handled = TRUE, !.id = id]
       IN  req' = Begin(r,
             IF PoolIsNull(variant) THEN Respond([rec EXCEPT !.dbErr = TRUE], 500, << >>)
             ELSE [rec EXCEPT !.pc = "select"])
    /\ UNCHANGED <<variant, dbUrl, spacesEnv, todos, nextId, assigned, blobs, now>>

\* SELECT * FROM todos WHERE id = $1 settles.
SelectDone(r, ok) ==
    /\ req[r].pc = "select"
    /\ ok => QueryCanSucceed
    /\ LET rec == req[r]
           rows == RowsOf(rec.id)
       IN  req' = [req EXCEPT ![r] =
             IF ~ok THEN Respond([rec EXCEPT !.dbErr = TRUE], 500, << >>)
             ELSE IF rows = {} THEN Respond([rec EXCEPT !.found = "no"], 404, << >>)
             ELSE LET todo == CHOOSE t \in rows : TRUE
                  IN  IF todo.file_url # NullUrl
                      THEN [rec EXCEPT !.found = "yes", !.pc = "delblob",
                                       !.fileUrl = todo.file_url,
                                       !.bucket = DeleteBucket(variant),
                                       !.key = DeleteKey(variant, todo.file_url)]
                      ELSE [rec EXCEPT !.found = "yes", !.pc = "delrow"]]
    /\ UNCHANGED <<variant, dbUrl, spacesEnv, todos, nextId, assigned, blobs, now, served>>

\* s3.deleteObject settles.  Deleting an absent object succeeds.
DelBlobDone(r, ok) ==
    /\ req[r].pc = "delblob"
    /\ ok => DeleteCanSucceed(req[r])
    /\ LET rec == req[r]
           got == [rec EXCEPT !.blobDel = IF ok THEN "ok" ELSE "failed"]
       IN  /\ blobs' = IF ok THEN blobs \ {[bucket |-> rec.bucket, key |-> rec.key]} ELSE blobs
           /\ req' = [req EXCEPT ![r] =
                 IF ok \/ SwallowsDeleteError(variant)
                 THEN [got EXCEPT !.pc = "delrow"]
                 ELSE Respond(got, 500, << >>)]
    /\ UNCHANGED <<variant, dbUrl, spacesEnv, todos, nextId, assigned, now, served>>

\* DELETE FROM todos WHERE id = $1 settles; its row count is not read.
DelRowDone(r, ok) ==
    /\ req[r].pc = "delrow"
    /\ ok => QueryCanSucceed
    /\ LET rec == req[r]
       IN  IF ok
           THEN /\ todos' = todos \ RowsOf(rec.id)
                /\ req' = [req EXCEPT ![r] = Respond(rec, 200, << >>)]
           ELSE /\ req' = [req EXCEPT ![r] = Respond([rec EXCEPT !.dbErr = TRUE], 500, << >>)]
                /\ UNCHANGED todos
    /\ UNCHANGED <<variant, dbUrl, spacesEnv, nextId, assigned, blobs, now, served>>

\* ------------------------------------------------------- GET /api/todos
\* As Orders, for ORDER BY created_at ASC.
RECURSIVE OrdersOldestFirst(_)
OrdersOldestFirst(rows) ==
    IF rows = {} THEN {<< >>}
    ELSE UNION {{<<t>> \o rest : rest \in OrdersOldestFirst(rows \ {t})} :
                t \in {u \in rows : \A w \in rows : u.created_at <= w.created_at}}

\* The orders ORDER BY created_at DESC may return: rows with equal
\* created_at come in any order.
RECURSIVE Orders(_)
Orders(rows) ==
    IF rows = {} THEN {<< >>}
    ELSE UNION {{<<t>> \o rest : rest \in Orders(rows \ {t})} :
                t \in {u \in rows : \A w \in rows : w.created_at <= u.created_at}}

GetTodos(r) ==
    /\ Arrive(r)
    /\ LET rec == [Idle EXCEPT !.kind = "list", !.handled = TRUE]
       IN  req' = Begin(r,
             IF ChecksDb(variant) /\ ~dbConfigured THEN Respond(rec, 503, << >>)
             ELSE [rec EXCEPT !.pc = "list"])
    /\ UNCHANGED <<variant, dbUrl, spacesEnv, todos, nextId, assigned, blobs, now>>

ListDone(r, ok) ==
    /\ req[r].pc = "list"
    /\ ok => QueryCanSucceed
    /\ \E rows \in Orders(todos) :
         req' = [req EXCEPT ![r] =
           IF ok THEN Respond(req[r], 200, rows)
           ELSE Respond([req[r] EXCEPT !.dbErr = TRUE], 500, << >>)]
    /\ UNCHANGED <<variant, dbUrl, spacesEnv, todos, nextId, assigned, blobs, now, served>>

\* ---------------------------------------------------------- GET /health
\* part_001 queries the database and the bucket before it answers.
HealthIsLive(v) == v = "part_001"

\* services.database and services.spaces of the 200 body: constants in
\* server.js and part_001, the startup flags in part_000, no services object
\* in part_002.
DatabaseService(v) ==
    CASE v = "part_000" -> IF dbConfigured THEN "Connected" ELSE "Not configured"
      [] v = "part_002" -> NULL
      [] OTHER -> "Connected"

SpacesService(v) ==
    CASE v = "part_000" -> IF spacesConfigured THEN "Connected" ELSE "Not configured"
      [] v = "part_002" -> NULL
      [] OTHER -> "Configured"

HealthOk(rec) ==
    Respond([rec EXCEPT !.svcDb = DatabaseService(variant),
                        !.svcSpaces = SpacesService(variant)], 200, << >>)

Health(r) ==
    /\ Arrive(r)
    /\ LET rec == [Idle EXCEPT !.kind = "health", !.handled = TRUE]
       IN  req' = Begin(r, IF HealthIsLive(variant) THEN [rec EXCEPT !.pc = "ping"]
                           ELSE HealthOk(rec))
    /\ UNCHANGED <<variant, dbUrl, spacesEnv, todos, nextId, assigned, blobs, now>>

\* SELECT 1 settles.
PingDone(r, ok) ==
    /\ req[r].pc = "ping"
    /\ ok => QueryCanSucceed
    /\ req' = [req EXCEPT ![r] =
          IF ok THEN [req[r] EXCEPT !.pc = "head"]
          ELSE Respond([req[r] EXCEPT !.dbErr = TRUE], 500, << >>)]
    /\ UNCHANGED <<variant, dbUrl, spacesEnv, todos, nextId, assigned, blobs, now, served>>

\* s3.headBucket settles.
HeadBucketDone(r, ok) ==
    /\ req[r].pc = "head"
    /\ req' = [req EXCEPT ![r] = IF ok THEN HealthOk(req[r]) ELSE Respond(req[r], 500, << >>)]
    /\ UNCHANGED <<variant, dbUrl, spacesEnv, todos, nextId, assigned, blobs, now, served>>

\* --------------------------------------------------------------- clock
Tick ==
    /\ now < MaxTime
    /\ now' = now + 1
    /\ UNCHANGED <<variant, dbUrl, spacesEnv, todos, nextId, assigned, blobs, served, req>>

Next ==
    \/ \E r \in Reqs, in \in CreateInputs, description \in Descriptions :
         PostTodos(r, in[1], description, in[2])
    \/ \E r \in Reqs, ok \in BOOLEAN : UploadDone(r, ok)
    \/ \E r \in Reqs, ok \in BOOLEAN : InsertDone(r, ok)
    \/ \E r \in Reqs, id \in Ids, title \in Titles, description \in NewDescriptions,
          completed \in Completeds : PutTodo(r, id, title, description, completed)
    \/ \E r \in Reqs, ok \in BOOLEAN : UpdateDone(r, ok)
    \/ \E r \in Reqs, id \in Ids : DeleteTodo(r, id)
    \/ \E r \in Reqs, ok \in BOOLEAN : SelectDone(r, ok)
    \/ \E r \in Reqs, ok \in BOOLEAN : DelBlobDone(r, ok)
    \/ \E r \in Reqs, ok \in BOOLEAN : DelRowDone(r, ok)
    \/ \E r \in Reqs : GetTodos(r)
    \/ \E r \in Reqs, ok \in BOOLEAN : ListDone(r, ok)
    \/ \E r \in Reqs : Health(r)
    \/ \E r \in Reqs, ok \in BOOLEAN : PingDone(r, ok)
    \/ \E r \in Reqs, ok \in BOOLEAN : HeadBucketDone(r, ok)
    \/ Tick

Spec == Init /\ [][Next]_vars

\* ================================================================ claims
Done(k) == {r \in Reqs : req[r].kind = k /\ req[r].pc = "done"}

\* C1: a POST /api/todos with an empty or missing title that reaches the
\* handler (the database being configured) is answered 400, inserts no row
\* and issues no upload.
C1_EmptyTitleRejected ==
    \A r \in Done("create") :
        (req[r].handled /\ dbUrl /\ ~Truthy(req[r].title))
            => /\ req[r].status = 400
               /\ req[r].upload = "none"
               /\ req[r].inserted = 0

\* C2: a POST /api/todos with a valid title and a file whose upload fails
\* (the database call not failing) is answered 201 and inserts one row with
\* file_url and file_name both null.
C2_UploadFailureAbsorbed ==
    \A r \in Done("create") :
        (Truthy(req[r].title) /\ req[r].upload = "failed" /\ ~req[r].dbErr)
            => /\ req[r].status = 201
               /\ req[r].inserted # 0
               /\ Len(req[r].body) = 1
               /\ req[r].body[1].file_url = NullUrl
               /\ req[r].body[1].file_name = NullSeg

\* C3: a POST /api/todos with a valid title and a file whose upload and
\* insert succeed is answered 201 with file_name present and file_url the
\* Location of the uploaded key.
C3_UploadedFileRecorded ==
    \A r \in Done("create") :
        (Truthy(req[r].title) /\ req[r].upload = "ok" /\ ~req[r].dbErr)
            => /\ req[r].status = 201
               /\ Len(req[r].body) = 1
               /\ req[r].body[1].file_url = Location(req[r].bucket, req[r].key)
               /\ req[r].body[1].file_name # NullSeg

\* C4: a DELETE of a row with an attachment whose blob deletion fails (the
\* database calls not failing) still removes the row and is answered 200.
C4_BlobFailureDoesNotBlockDelete ==
    \A r \in Done("delete") :
        (req[r].blobDel = "failed" /\ ~req[r].dbErr)
            => /\ req[r].status = 200
               /\ RowsOf(req[r].id) = {}

\* C5: of two DELETE requests for the same existing id, neither of which
\* met a failing call, exactly one reports success (200) and the other
\* observes NotFound (404).
C5_SecondDeleteSeesNotFound ==
    \A r1, r2 \in Done("delete") :
        (/\ r1 # r2
         /\ req[r1].id = req[r2].id
         /\ req[r1].found = "yes" \/ req[r2].found = "yes"
         /\ ~req[r1].dbErr /\ ~req[r2].dbErr
         /\ req[r1].blobDel # "failed" /\ req[r2].blobDel # "failed")
            => {req[r1].status, req[r2].status} = {200, 404}

\* C6: when the UPDATE of a PUT /api/todos/:id settles and no row has that
\* id, the table is left as it was (no row created, none modified) and,
\* the statement having executed, the answer is 404; also when the row was
\* there as the request arrived and a delete removed it meanwhile.
C6_UnknownIdNotFound ==
    [][\A r \in Reqs :
          (req[r].pc = "update" /\ req'[r].pc = "done" /\ RowsOf(req[r].id) = {})
              => /\ todos' = todos
                 /\ req'[r].status = IF req'[r].dbErr THEN 500 ELSE 404]_vars

C6_Witness ==
    \E r \in Done("put") :
        req[r].existed /\ req[r].status = 404 /\ req[r].found = "no"

\* C7: with no DATABASE_URL, every request to a todo endpoint that reaches
\* its handler is answered 503.
C7_NoDatabaseIs503 ==
    ~dbUrl => \A r \in Reqs :
                  (req[r].pc = "done" /\ req[r].handled /\ req[r].kind # "health")
                      => req[r].status = 503

\* C8: a create whose file is over the size limit or not whitelisted is
\* answered 400 before the handler runs: no upload, no row.
C8_BadFileIs400 ==
    \A r \in Done("create") :
        Multer(variant, req[r].file) # 0
            => /\ req[r].status = 400
               /\ ~req[r].handled
               /\ req[r].upload = "none"
               /\ req[r].inserted = 0

\* C9: ids are unique in the table, and every create that is answered 201
\* has inserted one new row whose id the sequence never handed out before
\* and whose title, description and attachment fields are those of that
\* request; the 201 body is that row.
C9_OwnRowFreshId ==
    /\ [](\A t1, t2 \in todos : t1.id = t2.id => t1 = t2)
    /\ [][\A r \in Reqs :
            (req[r].pc = "insert" /\ req'[r].status = 201)
                => LET row == req'[r].body[1]
                   IN  /\ row.id \notin assigned
                       /\ row \notin todos
                       /\ todos' = todos \cup {row}
                       /\ req'[r].inserted = row.id
                       /\ row.title = req[r].title
                       /\ row.description = req[r].description
                       /\ row.file_url = IF req[r].upload = "ok"
                                         THEN Location(req[r].bucket, req[r].key)
                                         ELSE NullUrl
                       /\ req[r].upload = "ok" => req[r].key[2].name = req[r].file.name
                       /\ row.file_name \in IF req[r].upload = "ok"
                                             THEN {Lit(req[r].file.name), req[r].key[2]}
                                             ELSE {NullSeg}]_vars

\* Two creates that overlapped: r2 had arrived and uploaded its file under a
\* key stamped before r1's row was created, and r2's insert came second.
C9_Witness ==
    \E r1, r2 \in Done("create") :
        /\ req[r1].status = 201 /\ req[r2].status = 201
        /\ req[r2].upload = "ok"
        /\ req[r2].key[2].ts < req[r1].body[1].created_at
        /\ req[r2].inserted > req[r1].inserted

\* C10: every row has file_url and file_name both present or both absent.
C10_AttachmentFieldsPaired ==
    \A t \in todos : (t.file_url = NullUrl) <=> (t.file_name = NullSeg)

\* A row with an attachment, and a row created after its upload failed.
C10_Witness ==
    /\ \E t \in todos : t.file_url # NullUrl /\ t.file_name # NullSeg
    /\ \E r \in Done("create") : req[r].upload = "failed" /\ req[r].status = 201

\* C11: whatever titles (empty, missing, present) the creates and updates
\* carried, no row of the table has an empty title.
C11_NoEmptyTitle ==
    \A t \in todos : t.title # ""

\* C12: when the SELECT of GET /api/todos settles without failing, the
\* answer is 200 and its body holds every row of the table once and nothing
\* else, a row never after one created earlier; if no row was ever deleted
\* that is one item per successful create, and for an empty table the body
\* is the empty array.
C12_ListNewestFirst ==
    [][\A r \in Reqs :
          (req[r].pc = "list" /\ req'[r].pc = "done" /\ ~req'[r].dbErr)
              => LET body == req'[r].body
                 IN  /\ req'[r].status = 200
                     /\ Len(body) = Cardinality(todos)
                     /\ {body[i] : i \in 1..Len(body)} = todos
                     /\ \A i, j \in 1..Len(body) :
                            i < j => body[i].created_at >= body[j].created_at
                     /\ {t.id : t \in todos} = assigned
                            => Len(body) = Cardinality(assigned)
                     /\ todos = {} => body = << >>]_vars

\* A list answered with two rows, the one a create of this run inserted
\* ahead of the older one.
C12_Witness ==
    \E r \in Done("list") :
        /\ req[r].status = 200
        /\ Len(req[r].body) = 2
        /\ req[r].body[1].id > req[r].body[2].id
        /\ req[r].body[1].created_at > req[r].body[2].created_at

\* C13: every answered GET /health has status 200, and its
\* services.database and services.spaces say Connected or Configured when
\* DATABASE_URL, respectively the object store's settings, were set at
\* startup, and Not configured when they were not.
C13_HealthReportsConfiguration ==
    \A r \in Done("health") :
        /\ req[r].status = 200
        /\ req[r].svcDb \in IF dbUrl THEN {"Connected", "Configured"} ELSE {"Not configured"}
        /\ req[r].svcSpaces \in IF spacesEnv THEN {"Connected", "Configured"}
                                 ELSE {"Not configured"}

\* C14: the step in which a PUT /api/todos/:id is answered 200 replaces the
\* row with that id by one that differs from it at most in title,
\* description, completed and updated_at, which are the request's values
\* and the current time; every other row, the sequence and the object
\* store are as before, and the request has issued no upload and no blob
\* deletion.
C14_UpdateFrame ==
    [][\A r \in Reqs :
          (req[r].pc = "update" /\ req'[r].status = 200)
              => /\ \E old \in todos :
                       LET new == [old EXCEPT !.title = req[r].title,
                                              !.description = req[r].description,
                                              !.completed = req[r].completed,
                                              !.updated_at = now]
                       IN  /\ old.id = req[r].id
                           /\ todos' = (todos \ {old}) \cup {new}
                           /\ req'[r].body = <<new>>
                 /\ blobs' = blobs
                 /\ nextId' = nextId
                 /\ req'[r].upload = "none"
                 /\ req'[r].blobDel = "none"]_vars

\* An answered PUT that changed a row with an attachment, at a later time
\* than its creation, while the table held another row.
C14_Witness ==
    \E r \in Done("put") :
        /\ req[r].status = 200
        /\ req[r].body[1].file_url # NullUrl
        /\ req[r].body[1].description = "d2"
        /\ req[r].body[1].updated_at > req[r].body[1].created_at
        /\ \E t \in todos : t.id # req[r].id

\* C15: a DELETE that found a row with an attachment issues its blob
\* deletion before the row's deletion, on the bucket and key the attachment
\* was uploaded under (those its file_url is the Location of); and the step
\* in which that deletion succeeds leaves the store without that object.
C15_DeleteTargetsUploadedBlob ==
    /\ [](\A r \in Reqs :
            (req[r].kind = "delete" /\ req[r].fileUrl # NullUrl)
                => /\ Location(req[r].bucket, req[r].key) = req[r].fileUrl
                   /\ req[r].pc = "delrow" => req[r].blobDel # "none")
    /\ [][\A r \in Reqs :
            (req[r].pc = "delblob" /\ req'[r].blobDel = "ok")
                => \A b \in blobs' : Location(b.bucket, b.key) # req[r].fileUrl]_vars

\* C16: whenever no DELETE request is in flight, every row whose file_url
\* is present refers to an object that is in the object store.
C16_NoDanglingAttachment ==
    (\A r \in Reqs : req[r].kind = "delete" => req[r].pc = "done")
        => \A t \in todos :
              t.file_url # NullUrl
                  => \E b \in blobs : Location(b.bucket, b.key) = t.file_url

====
